---- MODULE Spec2Model ----
(***************************************************************************)
(* A model of BrowserSession (src/src/BrowserSession.ts): the session's    *)
(* driver/page handles, the launch fallback chain, closeBrowser, the tab   *)
(* router and the action executor (doActionWithOptions).  One caller       *)
(* awaits each call before issuing the next; a call advances through the   *)
(* await points of its code, recorded in pc.  The driver (puppeteer), the  *)
(* endpoint validator and host discovery are the environment: each of      *)
(* their operations resolves or rejects nondeterministically.              *)
(***************************************************************************)
EXTENDS Integers, Sequences, FiniteSets, TLC

(* ------------------------------ bounds --------------------------------- *)
\* number of public calls the caller issues in one behaviour
MaxCalls == 3
\* console / page-error events delivered to the listeners during one call
MaxLogs == 1

(* --------------------------- program constants ------------------------- *)
NoHandle == "none"
NoPage == 0
\* an optional value is <<>> (undefined) or <<v>>
Undefined == <<>>
Some(v) == <<v>>

(* ------------------------------ strings -------------------------------- *)
\* A URL string is the sequence of its lexical tokens; string equality is
\* equality of the sequences.
AboutBlank == <<"about", ":", "blank">>
Urls ==
  { <<"https", ":", "/", "/", "example.com", "/">>,
    <<"http", ":", "/", "/", "www.", "example.com", "/">>,
    <<"http", ":", "/", "/", "site.a", "/", "other">>,
    <<"example.com">> }

SpecialSchemes == {"http", "https"}
SchemeTokens == {"http", "https", "about", "localhost", "example.com", "site.a"}

\* s with its first n tokens dropped
Drop(s, n) == IF n >= Len(s) THEN <<>> ELSE SubSeq(s, n + 1, Len(s))

\* the longest prefix of s that holds no "/"
RECURSIVE UpToSlash(_)
UpToSlash(s) ==
  IF s = <<>> \/ Head(s) = "/" THEN <<>> ELSE <<Head(s)>> \o UpToSlash(Tail(s))

\* new URL(url): [ok |-> FALSE] when the constructor throws, otherwise the
\* scheme, the host (with port) and the rest of the parsed URL
ParseURL(url) ==
  IF Len(url) >= 2 /\ url[1] \in SchemeTokens /\ url[2] = ":"
  THEN LET rest == Drop(url, 2)
           slashes == Len(rest) >= 2 /\ rest[1] = "/" /\ rest[2] = "/"
           auth == IF slashes THEN UpToSlash(Drop(rest, 2)) ELSE <<>>
       IN IF url[1] \in SpecialSchemes
          THEN IF slashes /\ auth # <<>>
               THEN [ok |-> TRUE, scheme |-> url[1], host |-> auth,
                     path |-> Drop(rest, 2 + Len(auth))]
               ELSE [ok |-> FALSE, scheme |-> url[1], host |-> <<>>, path |-> <<>>]
          ELSE [ok |-> TRUE, scheme |-> url[1], host |-> auth,
                path |-> IF slashes THEN Drop(rest, 2 + Len(auth)) ELSE rest]
  ELSE [ok |-> FALSE, scheme |-> "", host |-> <<>>, path |-> <<>>]

\* url.replace(/\/$/, "")
StripTrailingSlash(url) ==
  IF url # <<>> /\ url[Len(url)] = "/" THEN SubSeq(url, 1, Len(url) - 1) ELSE url

\* host.replace(/^www\./, "")
StripWww(host) == IF host # <<>> /\ Head(host) = "www." THEN Tail(host) ELSE host

getRootDomain(url) ==
  LET u == ParseURL(url) IN IF u.ok THEN StripWww(u.host) ELSE url

\* the URL a page reports after the driver navigated it to url: the parsed
\* URL serialised again (an empty path of http/https becomes "/")
Serialize(url) ==
  LET u == ParseURL(url)
  IN <<u.scheme, ":", "/", "/">> \o u.host \o (IF u.path = <<>> THEN <<"/">> ELSE u.path)

\* page.goto resolves only for URLs the browser can load
Navigable(url) == ParseURL(url).ok /\ ParseURL(url).scheme \in SpecialSchemes

(* ------------------------------ JS values ------------------------------ *)
\* the values an element lookup deals in: undefined, null, the JSHandle that
\* page.evaluateHandle resolves to (an object, whatever it wraps) and the
\* object that describes an element
UndefinedJS == [kind |-> "undefined"]
Null == [kind |-> "null"]
JSHandle(v) == [kind |-> "handle", of |-> v]
ElementInfo == [kind |-> "object"]

\* !v
Falsy(v) == v.kind \in {"undefined", "null"}

(* ----------------------------- coordinates ----------------------------- *)
\* A coordinate or size string is the sequence of its comma-separated
\* components, as coordinate.split(",") returns them.
Coords == { <<"100", "200">>, <<"abc", "200">>, <<"100">> }
Sizes == { <<"100", "200">>, <<"100", "abc">>, <<"200">>, <<"100", "">> }

NaN == [nan |-> TRUE, val |-> 0]
Num(n) == [nan |-> FALSE, val |-> n]

\* Number(component): the empty string converts to 0, text to NaN
NumberJS(t) ==
  IF t = "" THEN Num(0)
  ELSE IF t = "100" THEN Num(100)
  ELSE IF t = "200" THEN Num(200)
  ELSE NaN

\* const [x, y] = s.split(",").map(Number);
\* x === undefined || y === undefined || isNaN(x) || isNaN(y)
Malformed(parts) ==
  \/ Len(parts) < 2
  \/ NumberJS(parts[1]).nan
  \/ NumberJS(parts[2]).nan

(* ------------------------------- state --------------------------------- *)
VARIABLES
  browser,               \* this.browser: the handle held ("local" or "remote" by
                         \* the way it was acquired), or NoHandle
  page,                  \* this.page: a page id or NoPage
  currentMousePosition,  \* this.currentMousePosition: optional coordinate
  isUsingRemoteBrowser,  \* this.isUsingRemoteBrowser
  gone,                  \* driver: the handles the session no longer references,
                         \* each with the release calls it received
  openPages,             \* driver: open pages, in page order
  listeners,             \* driver: listeners registered on pages
  pc,                    \* position of the call in progress, "idle" if none
  callNo,                \* number of calls issued so far
  call,                  \* the call in progress or last finished
  logs,                  \* the logs array of the call
  events,                \* what the call has done so far, in order
  outcome,               \* how the last finished call ended
  script,                \* the caller's program: the calls it issues in order,
                         \* <<>> for a caller that issues any calls
  probe                  \* a helper function run on its own: its locals

vars == <<browser, page, currentMousePosition, isUsingRemoteBrowser,
          gone, openPages, listeners,
          pc, callNo, call, logs, events, outcome, script, probe>>

session == <<browser, page, currentMousePosition, isUsingRemoteBrowser>>
driver == <<gone, openPages, listeners>>
harness == <<script, probe>>

NoShot == <<>>
NoCall == [op |-> "none", arg |-> <<>>, remoteEnabled |-> FALSE, host |-> FALSE,
           held |-> NoHandle, stage |-> "none", connected |-> FALSE,
           nav |-> "none", target |-> NoPage, opResult |-> "none",
           afterClose |-> FALSE, stale |-> {},
           element |-> UndefinedJS, elementInfo |-> UndefinedJS,
           prev |-> NoPage, hasNetworkActivity |-> FALSE]
NoOutcome == [status |-> "none", error |-> "none", present |-> {},
              screenshot |-> NoShot, logs |-> <<>>, currentUrl |-> <<>>,
              currentMousePosition |-> Undefined, elementInfo |-> UndefinedJS]

NoProbe == [fn |-> "none"]

\* the number of calls the caller issues
CallLimit == IF script = <<>> THEN MaxCalls ELSE Len(script)

\* new BrowserSession(): nothing launched, no call made
Constructed ==
  /\ browser = NoHandle
  /\ page = NoPage
  /\ currentMousePosition = Undefined
  /\ isUsingRemoteBrowser = FALSE
  /\ gone = {}
  /\ openPages = <<>>
  /\ listeners = {}
  /\ pc = "idle"
  /\ callNo = 0
  /\ call = NoCall
  /\ logs = <<>>
  /\ events = <<>>
  /\ outcome = NoOutcome

Init ==
  /\ Constructed
  /\ script = <<>>
  /\ probe = NoProbe

(* ------------------------------ helpers -------------------------------- *)
\* the pages of the handle held, in page order (this.browser.pages())
HeldPages == SelectSeq(openPages, LAMBDA p : p.owner = "held")

OpenIds == {openPages[i].id : i \in 1..Len(openPages)}

\* the record of the open page with id p
PageRec(p) == CHOOSE r \in {openPages[i] : i \in 1..Len(openPages)} : r.id = p

\* the identity of a page object the driver creates next
FreshPage == CHOOSE n \in 1..(Len(openPages) + 1) : n \notin OpenIds

\* a page object the driver has just created for the handle held
NewPageRec(url) == [id |-> FreshPage, owner |-> "held", url |-> url]

\* the call ends: control is back with the caller
Finish(status, error, result) ==
  /\ pc' = "idle"
  /\ outcome' = [result EXCEPT !.status = status, !.error = error]

Log(e) == events' = events \o e

\* a newPage() that opens its page in place of the active page
newPage_replacesActive ==
  Append(SelectSeq(openPages, LAMBDA p : p.id # page), NewPageRec(AboutBlank))

\* this.browser.newPage(): the open pages with the page just created
newPage == Append(openPages, NewPageRec(AboutBlank))

\* this.browser = <a handle just acquired>: a handle still referenced is
\* overwritten and, never released, stays open with its pages
Assign(kind) ==
  /\ browser' = kind
  /\ gone' = IF browser # NoHandle
             THEN gone \cup {[kind |-> browser, releases |-> <<>>]}
             ELSE gone
  /\ openPages' = [i \in 1..Len(openPages) |-> [openPages[i] EXCEPT !.owner = "dropped"]]

(* --------------------- resetBrowserState / closeBrowser ----------------- *)
\* resetBrowserState without `this.page = undefined`
resetBrowserState_keepsPage ==
  /\ browser' = NoHandle
  /\ page' = page
  /\ currentMousePosition' = Undefined
  /\ isUsingRemoteBrowser' = FALSE

\* resetBrowserState without `this.isUsingRemoteBrowser = false`
resetBrowserState_keepsRemoteFlag ==
  /\ browser' = NoHandle
  /\ page' = NoPage
  /\ currentMousePosition' = Undefined
  /\ isUsingRemoteBrowser' = isUsingRemoteBrowser

resetBrowserState ==
  /\ browser' = NoHandle
  /\ page' = NoPage
  /\ currentMousePosition' = Undefined
  /\ isUsingRemoteBrowser' = FALSE

\* the release closeBrowser issues on the handle it holds
ReleaseMethod == IF isUsingRemoteBrowser THEN "disconnect" ELSE "close"

\* the body of closeBrowser, run after the steps in prior; a rejected
\* disconnect()/close() is swallowed
closeBrowserBody(prior) ==
  IF browser # NoHandle \/ page # NoPage
  THEN /\ gone' = IF browser # NoHandle
                  THEN gone \cup {[kind |-> browser, releases |-> <<ReleaseMethod>>]}
                  ELSE gone
       /\ openPages' = SelectSeq(openPages, LAMBDA p : p.owner # "held")
       /\ listeners' = {l \in listeners :
                          \E i \in 1..Len(openPages) :
                             openPages[i].id = l.page /\ openPages[i].owner # "held"}
       /\ resetBrowserState
       /\ events' = prior \o (IF browser # NoHandle THEN <<ReleaseMethod>> ELSE <<>>)
                          \o <<"reset">>
  ELSE /\ UNCHANGED <<session, driver>>
       /\ events' = prior

\* closeBrowser(): one call, returns {}
closeBrowser ==
  /\ pc = "idle"
  /\ callNo < CallLimit
  /\ callNo' = callNo + 1
  /\ call' = [NoCall EXCEPT !.op = "closeBrowser", !.held = browser,
                            !.afterClose = (call.op = "closeBrowser")]
  /\ logs' = <<>>
  /\ closeBrowserBody(<<>>)
  /\ Finish("returned", "none", NoOutcome)
  /\ UNCHANGED harness

(* ----------------------------- launchBrowser ---------------------------- *)
\* launchBrowser() is called; REMOTE_BROWSER_ENABLED and REMOTE_BROWSER_HOST
\* are read from the environment
launchBrowser ==
  /\ pc = "idle"
  /\ callNo < CallLimit
  /\ callNo' = callNo + 1
  /\ \E re \in BOOLEAN, h \in BOOLEAN :
       \* REMOTE_BROWSER_HOST is read by connectToRemoteBrowser only
       /\ h => re
       /\ call' = [NoCall EXCEPT !.op = "launchBrowser", !.remoteEnabled = re,
                                 !.host = h, !.held = browser]
  /\ logs' = <<>>
  /\ events' = <<>>
  /\ pc' = "launch"
  /\ outcome' = NoOutcome
  /\ UNCHANGED <<session, driver>>
  /\ UNCHANGED harness

\* remote connection disabled: close the prior browser or reset the state
launchLocalBranch ==
  /\ pc = "launch"
  /\ ~call.remoteEnabled
  /\ IF browser # NoHandle
     THEN closeBrowserBody(events)
     ELSE /\ resetBrowserState
          /\ Log(<<"reset">>)
          /\ UNCHANGED driver
  /\ pc' = "launchLocal"
  /\ UNCHANGED <<callNo, call, logs, outcome>>
  /\ UNCHANGED harness

\* remote connection enabled: connectToRemoteBrowser() starts
launchRemoteBranch ==
  /\ pc = "launch"
  /\ call.remoteEnabled
  /\ pc' = IF call.host THEN "tryHost" ELSE "discover"
  /\ UNCHANGED <<session, driver, callNo, call, logs, events, outcome>>
  /\ UNCHANGED harness

\* tryChromeHostUrl(REMOTE_BROWSER_HOST) resolves true, false, or rejects
tryChromeHostUrl ==
  /\ pc = "tryHost"
  /\ Log(<<"tryChromeHostUrl">>)
  /\ \E r \in {"valid", "invalid", "rejects"} :
       /\ pc' = IF r = "valid" THEN "connectVersion" ELSE "discover"
       /\ call' = [call EXCEPT !.stage = IF r = "valid" THEN "operator" ELSE "none"]
  /\ UNCHANGED <<session, driver, callNo, logs, outcome>>
  /\ UNCHANGED harness

\* discoverChromeHostUrl() resolves to a host, to none, or rejects
discoverChromeHostUrl ==
  /\ pc = "discover"
  /\ Log(<<"discoverChromeHostUrl">>)
  /\ \E r \in {"found", "none", "rejects"} :
       /\ pc' = IF r = "found" THEN "connectVersion" ELSE "launchLocal"
       /\ call' = [call EXCEPT !.stage = IF r = "found" THEN "discover" ELSE "none"]
  /\ UNCHANGED <<session, driver, callNo, logs, outcome>>
  /\ UNCHANGED harness

\* a failed operator host that falls straight back to the local launch
AfterConnectFailed_skipsDiscovery == "launchLocal"

\* a failed connect that ends the launch without a fallback
AfterConnectFailed_givesUp == "idle"

\* where connectToRemoteBrowser goes on when connectWithChromeHostUrl
\* returned false
AfterConnectFailed == IF call.stage = "operator" THEN "discover" ELSE "launchLocal"

\* a version-info response without webSocketDebuggerUrl taken for an endpoint
NoEndpoint_connects == "connectWs"

\* if (!webSocketDebuggerUrl) return false
NoEndpoint == AfterConnectFailed

\* connectWithChromeHostUrl: axios.get(<host>/json/version), called without
\* a timeout: the response carries the endpoint or lacks it, the request
\* rejects, or the host accepts the request and never answers
connectVersion ==
  /\ pc = "connectVersion"
  /\ \/ Log(<<"version">>) /\ pc' = "connectWs"
     \/ Log(<<"version:noEndpoint">>) /\ pc' = NoEndpoint
     \/ Log(<<"version:rejects">>) /\ pc' = AfterConnectFailed
     \/ Log(<<"version:pending">>) /\ pc' = "pending"
  /\ UNCHANGED <<session, driver, callNo, call, logs, outcome>>
  /\ UNCHANGED harness

\* connectWithChromeHostUrl: connect({browserWSEndpoint})
connectWs ==
  /\ pc = "connectWs"
  /\ \/ \* connect resolves: the handle and the flag are assigned
        /\ Assign("remote")
        /\ isUsingRemoteBrowser' = TRUE
        /\ Log(<<"connect">>)
        /\ pc' = "connectPages"
        /\ UNCHANGED <<page, currentMousePosition, listeners>>
     \/ \* connect rejects
        /\ Log(<<"connect:rejects">>)
        /\ pc' = AfterConnectFailed
        /\ UNCHANGED <<session, driver>>
  /\ UNCHANGED <<callNo, call, logs, outcome>>
  /\ UNCHANGED harness

\* the tabs a remote browser may already have open when it is connected to
RemoteTabs ==
  { <<>>, <<AboutBlank>>,
    << <<"https", ":", "/", "/", "example.com", "/">>,
       <<"http", ":", "/", "/", "www.", "example.com", "/">> >> }

\* connectWithChromeHostUrl: browser.pages(), adopt the first page
connectPages ==
  /\ pc = "connectPages"
  /\ \/ \* pages() resolves to the tabs of the remote browser
        \E tabs \in RemoteTabs :
          IF tabs # <<>>
          THEN /\ openPages' = openPages \o
                    [i \in 1..Len(tabs) |->
                       [id |-> FreshPage + i - 1, owner |-> "held", url |-> tabs[i]]]
               /\ page' = FreshPage
               /\ call' = [call EXCEPT !.connected = TRUE]
               /\ Finish("returned", "none", NoOutcome)
          ELSE /\ pc' = "connectNewPage"
               /\ UNCHANGED <<page, openPages, call, outcome>>
     \/ \* pages() rejects
        /\ pc' = AfterConnectFailed
        /\ UNCHANGED <<page, openPages, call, outcome>>
  /\ UNCHANGED <<browser, currentMousePosition, isUsingRemoteBrowser, gone,
                 listeners, callNo, logs, events>>
  /\ UNCHANGED harness

\* connectWithChromeHostUrl: browser.newPage() when there is no page
connectNewPage ==
  /\ pc = "connectNewPage"
  /\ \/ \* newPage resolves
        /\ openPages' = newPage
        /\ page' = FreshPage
        /\ call' = [call EXCEPT !.connected = TRUE]
        /\ Finish("returned", "none", NoOutcome)
     \/ \* newPage rejects
        /\ pc' = AfterConnectFailed
        /\ UNCHANGED <<page, openPages, call, outcome>>
  /\ UNCHANGED <<browser, currentMousePosition, isUsingRemoteBrowser,
                 gone, listeners, callNo, logs, events>>
  /\ UNCHANGED harness

\* a local launch that leaves the flag as it finds it
LocalFlag_kept == isUsingRemoteBrowser

\* this.isUsingRemoteBrowser = false, after launch() has resolved
LocalFlag == FALSE

\* launchLocalBrowser: launch({...})
launchLocal ==
  /\ pc = "launchLocal"
  /\ \/ \* launch resolves
        /\ Assign("local")
        /\ isUsingRemoteBrowser' = LocalFlag
        /\ Log(<<"launch">>)
        /\ pc' = "localNewPage"
        /\ UNCHANGED <<page, currentMousePosition, listeners, outcome>>
     \/ \* launch rejects: launchBrowser raises
        /\ Log(<<"launch:rejects">>)
        /\ Finish("raised", "launch", NoOutcome)
        /\ UNCHANGED <<session, driver>>
  /\ UNCHANGED <<callNo, call, logs>>
  /\ UNCHANGED harness

\* launchLocalBrowser: browser.newPage()
localNewPage ==
  /\ pc = "localNewPage"
  /\ \/ \* newPage resolves
        /\ openPages' = newPage
        /\ page' = FreshPage
        /\ Finish("returned", "none", NoOutcome)
        /\ UNCHANGED events
     \/ \* newPage rejects: launchBrowser raises
        /\ Log(<<"newPage:rejects">>)
        /\ Finish("raised", "newPage", NoOutcome)
        /\ UNCHANGED <<page, openPages>>
  /\ UNCHANGED <<browser, currentMousePosition, isUsingRemoteBrowser,
                 gone, listeners, callNo, call, logs>>
  /\ UNCHANGED harness

(* --------------------- doActionWithOptions: entry ----------------------- *)
ConsoleListener(p, c) == [page |-> p, ev |-> "console", call |-> c]
ErrorListener(p, c) == [page |-> p, ev |-> "pageerror", call |-> c]
RequestListener(p, c) == [page |-> p, ev |-> "request", call |-> c]

\* page.on("console", consoleListener); page.on("pageerror", errorListener)
AttachListeners(p, c) == listeners \cup {ConsoleListener(p, c), ErrorListener(p, c)}

\* page.off("console", consoleListener); page.off("pageerror", errorListener)
DetachListeners(p, c) == listeners \ {ConsoleListener(p, c), ErrorListener(p, c)}

\* a precondition test that never fires
NotLaunched_never(p) == FALSE

\* if (!this.page) throw new Error("Browser is not launched. ...")
NotLaunched(p) == p = NoPage

SimpleOps == {"type", "scrollDown", "scrollUp"}
MouseOps == {"click", "hover"}

\* click, hover, type, scrollDown, scrollUp, resize: doAction(operation)
\* is called; it raises without a page and attaches its listeners otherwise
doAction ==
  /\ pc = "idle"
  /\ callNo < CallLimit
  /\ callNo' = callNo + 1
  /\ \E op \in SimpleOps \cup MouseOps \cup {"resize"} :
     \E a \in (IF op \in MouseOps THEN Coords ELSE IF op = "resize" THEN Sizes ELSE {<<>>}) :
       call' = [NoCall EXCEPT !.op = op, !.arg = a, !.held = browser,
                              !.target = page, !.stale = listeners]
  /\ logs' = <<>>
  /\ IF NotLaunched(page)
     THEN /\ events' = <<>>
          /\ Finish("raised", "notLaunched", NoOutcome)
          /\ UNCHANGED listeners
     ELSE /\ listeners' = AttachListeners(page, callNo + 1)
          /\ events' = <<"attach">>
          /\ pc' = "action"
          /\ outcome' = NoOutcome
  /\ UNCHANGED <<session, gone, openPages>>
  /\ UNCHANGED harness

\* a catch clause that swallows every error without logging it
OpFailed_logsNothing(e) ==
  /\ logs' = logs
  /\ call' = [call EXCEPT !.opResult = e]
  /\ pc' = "quiesce"

\* the operation rejected with error e: the catch clause of doActionWithOptions
OpFailed(e) ==
  /\ logs' = IF e # "TimeoutError" THEN Append(logs, <<"[Error]", e>>) ELSE logs
  /\ call' = [call EXCEPT !.opResult = e]
  /\ pc' = "quiesce"

\* the operation resolved
OpDone ==
  /\ call' = [call EXCEPT !.opResult = "ok"]
  /\ pc' = "quiesce"
  /\ UNCHANGED logs

(* ------------------------------ operations ------------------------------ *)
\* type, scrollDown, scrollUp: one driver call that resolves or rejects
simpleOp ==
  /\ pc = "action"
  /\ call.op \in SimpleOps
  /\ Log(<<"op">>)
  /\ \/ OpDone
     \/ OpFailed("Error")
  /\ UNCHANGED <<session, driver, callNo, outcome>>
  /\ UNCHANGED harness

\* resize: parse "width,height", then the viewport and window-bounds calls
resize ==
  /\ pc = "action"
  /\ call.op = "resize"
  /\ Log(<<"op">>)
  /\ IF Malformed(call.arg)
     THEN OpFailed("Invalid size")
     ELSE \/ OpDone
          \/ OpFailed("Error")
  /\ UNCHANGED <<session, driver, callNo, outcome>>
  /\ UNCHANGED harness

\* handleMouseInteraction: parse "x,y" and attach the request listener
mouseStart ==
  /\ pc = "action"
  /\ call.op \in MouseOps
  /\ IF Malformed(call.arg)
     THEN /\ OpFailed("Invalid coordinates")
          /\ Log(<<"op">>)
          /\ UNCHANGED listeners
     ELSE /\ listeners' = listeners \cup {RequestListener(call.target, callNo)}
          /\ Log(<<"op", "request:on">>)
          /\ pc' = "primitive"
          /\ UNCHANGED <<call, logs>>
  /\ UNCHANGED <<session, gone, openPages, callNo, outcome>>
  /\ UNCHANGED harness

\* a mouse interaction that records no position
Position_unrecorded(coordinate) == currentMousePosition

\* this.currentMousePosition = coordinate
Position(coordinate) == Some(coordinate)

\* handleMouseInteraction: the mouse primitive, then record the position
mousePrimitive ==
  /\ pc = "primitive"
  /\ \/ /\ currentMousePosition' = Position(call.arg)
        /\ Log(<<"primitive", "position">>)
        /\ pc' = "mouseSettle"
        /\ UNCHANGED <<call, logs>>
     \/ /\ OpFailed("Error")
        /\ Log(<<"primitive:rejects">>)
        /\ UNCHANGED currentMousePosition
  /\ UNCHANGED <<browser, page, isUsingRemoteBrowser, driver, callNo, outcome>>
  /\ UNCHANGED harness

\* requestListener: the page issues a request while the request listener of
\* the call is attached, before the test of line 484 (a later request finds
\* the flag set and changes nothing)
requestListener ==
  /\ pc \in {"primitive", "mouseSettle"}
  /\ RequestListener(call.target, callNo) \in listeners
  /\ ~call.hasNetworkActivity
  /\ call' = [call EXCEPT !.hasNetworkActivity = TRUE]
  /\ UNCHANGED <<session, driver, pc, callNo, logs, events, outcome>>
  /\ UNCHANGED harness

\* a test of the flag that always takes the quiet branch
NetworkActivity_never == FALSE

\* if (hasNetworkActivity)
NetworkActivity == call.hasNetworkActivity

\* handleMouseInteraction: delay(100), then, if a request was observed, the
\* call of waitForNavigation; without one the request listener is removed
mouseSettle ==
  /\ pc = "mouseSettle"
  /\ IF NetworkActivity
     THEN /\ Log(<<"delay">>)
          /\ pc' = "waitNav"
          /\ UNCHANGED <<call, logs, listeners>>
     ELSE /\ Log(<<"delay", "request:off">>)
          /\ listeners' = listeners \ {RequestListener(call.target, callNo)}
          /\ OpDone
  /\ UNCHANGED <<session, gone, openPages, callNo, outcome>>
  /\ UNCHANGED harness

\* page.waitForNavigation({waitUntil, timeout}).catch(() => {}): it resolves,
\* or rejects (a timeout among the reasons) and the rejection is swallowed
waitForNavigation ==
  /\ pc = "waitNav"
  /\ \/ Log(<<"waitForNavigation">>)
     \/ Log(<<"waitForNavigation:rejects">>)
  /\ pc' = "waitStable"
  /\ UNCHANGED <<session, driver, callNo, call, logs, outcome>>
  /\ UNCHANGED harness

\* waitTillHTMLStable(page): page.content() resolves until the loop ends,
\* or rejects; after a mouse interaction the request listener is removed
waitTillHTMLStable ==
  /\ pc = "waitStable"
  /\ \/ /\ Log(IF call.op \in MouseOps THEN <<"stable", "request:off">> ELSE <<"stable">>)
        /\ listeners' = IF call.op \in MouseOps
                        THEN listeners \ {RequestListener(call.target, callNo)}
                        ELSE listeners
        /\ OpDone
     \/ /\ Log(<<"stable:rejects">>)
        /\ OpFailed("Error")
        /\ UNCHANGED listeners
  /\ UNCHANGED <<session, gone, openPages, callNo, outcome>>
  /\ UNCHANGED harness

(* ----------------------------- navigateToUrl ---------------------------- *)
\* openPages with the url of page p replaced
WithUrl(p, url) ==
  [i \in 1..Len(openPages) |->
     IF openPages[i].id = p THEN [openPages[i] EXCEPT !.url = url] ELSE openPages[i]]

\* the first page of ps whose root domain is rootDomain, NoPage if none
\* (the for loop of navigateToUrl)
RECURSIVE FindExisting(_, _)
FindExisting(ps, rootDomain) ==
  IF ps = <<>> THEN NoPage
  ELSE IF Head(ps).url # <<>> /\ getRootDomain(Head(ps).url) = rootDomain
       THEN Head(ps).id
       ELSE FindExisting(Tail(ps), rootDomain)

\* a router that navigates whatever the page shows
NavKind_alwaysGoto(pageUrl, normalizedNewUrl) == "goto"

\* what navigateToUrl does with the page it switched to
NavKind(pageUrl, normalizedNewUrl) ==
  LET currentUrl == StripTrailingSlash(pageUrl)
  IN IF getRootDomain(currentUrl) = getRootDomain(normalizedNewUrl)
        /\ currentUrl # normalizedNewUrl
     THEN "goto" ELSE "reload"

\* the page the call just finished used, if that call was a navigateToUrl to
\* a URL of the root domain of url and the page is still open; NoPage
\* otherwise (kept with the call for the properties)
SameSiteBefore(url) ==
  IF /\ call.op = "navigateToUrl"
     /\ call.target \in OpenIds
     /\ getRootDomain(StripTrailingSlash(call.arg)) = getRootDomain(StripTrailingSlash(url))
  THEN call.target
  ELSE NoPage

\* navigateToUrl(url) is called; it raises without a driver handle
navigateToUrl ==
  /\ pc = "idle"
  /\ callNo < CallLimit
  /\ callNo' = callNo + 1
  /\ \E url \in Urls :
       call' = [NoCall EXCEPT !.op = "navigateToUrl", !.arg = url, !.held = browser,
                              !.stale = listeners, !.prev = SameSiteBefore(url)]
  /\ logs' = <<>>
  /\ events' = <<>>
  /\ IF browser = NoHandle
     THEN Finish("raised", "notLaunched", NoOutcome)
     ELSE pc' = "navPages" /\ outcome' = NoOutcome
  /\ UNCHANGED <<session, driver>>
  /\ UNCHANGED harness

\* navigateToUrl: browser.pages(), then switch to the page of the same root
\* domain and enter doAction, or go on to createNewTab
navRoute ==
  /\ pc = "navPages"
  /\ LET normalizedNewUrl == StripTrailingSlash(call.arg)
         existingPage == FindExisting(HeldPages, getRootDomain(normalizedNewUrl))
     IN \/ \* pages() resolves
           IF existingPage # NoPage
           THEN /\ page' = existingPage
                /\ call' = [call EXCEPT
                     !.target = existingPage,
                     !.nav = NavKind(PageRec(existingPage).url, normalizedNewUrl)]
                /\ listeners' = AttachListeners(existingPage, callNo)
                /\ Log(<<"bringToFront", "attach">>)
                /\ pc' = "action"
                /\ UNCHANGED outcome
           ELSE /\ pc' = "navNewTab"
                /\ UNCHANGED <<page, call, listeners, events, outcome>>
        \/ \* pages() rejects
           /\ Log(<<"pages:rejects">>)
           /\ Finish("raised", "Error", NoOutcome)
           /\ UNCHANGED <<page, call, listeners>>
  /\ UNCHANGED <<browser, currentMousePosition, isUsingRemoteBrowser,
                 gone, openPages, callNo, logs>>
  /\ UNCHANGED harness

\* createNewTab: browser.newPage(), make it the active page, enter doAction
createNewTab ==
  /\ pc = "navNewTab"
  /\ \/ \* newPage resolves
        /\ openPages' = newPage
        /\ page' = FreshPage
        /\ call' = [call EXCEPT !.target = FreshPage, !.nav = "goto"]
        /\ listeners' = AttachListeners(FreshPage, callNo)
        /\ Log(<<"newPage", "attach">>)
        /\ pc' = "action"
        /\ UNCHANGED outcome
     \/ \* newPage rejects
        /\ Log(<<"newPage:rejects">>)
        /\ Finish("raised", "Error", NoOutcome)
        /\ UNCHANGED <<page, openPages, call, listeners>>
  /\ UNCHANGED <<browser, currentMousePosition, isUsingRemoteBrowser,
                 gone, callNo, logs>>
  /\ UNCHANGED harness

\* navigatePageToUrl: page.goto(url, {timeout, waitUntil})
navGoto ==
  /\ pc = "action"
  /\ call.op = "navigateToUrl"
  /\ call.nav = "goto"
  /\ LET url == StripTrailingSlash(call.arg)
     IN \/ /\ Navigable(url)
           /\ openPages' = WithUrl(call.target, Serialize(url))
           /\ Log(<<"op", "goto">>)
           /\ pc' = "waitStable"
           /\ UNCHANGED <<call, logs>>
        \/ /\ Log(<<"op", "goto:rejects">>)
           /\ OpFailed("Error")
           /\ UNCHANGED openPages
        \/ /\ Navigable(url)
           /\ Log(<<"op", "goto:timeout">>)
           /\ OpFailed("TimeoutError")
           /\ \/ UNCHANGED openPages
              \/ openPages' = WithUrl(call.target, Serialize(url))
  /\ UNCHANGED <<session, gone, listeners, callNo, outcome>>
  /\ UNCHANGED harness

\* page.reload({timeout, waitUntil})
navReload ==
  /\ pc = "action"
  /\ call.op = "navigateToUrl"
  /\ call.nav = "reload"
  /\ \/ /\ Log(<<"op", "reload">>)
        /\ pc' = "waitStable"
        /\ UNCHANGED <<call, logs>>
     \/ /\ Log(<<"op", "reload:rejects">>)
        /\ OpFailed("Error")
     \/ /\ Log(<<"op", "reload:timeout">>)
        /\ OpFailed("TimeoutError")
  /\ UNCHANGED <<session, driver, callNo, outcome>>
  /\ UNCHANGED harness

(* ------------------ doActionWithOptions: after the operation ------------ *)
\* the lines the two listeners push; the console message is of type "log",
\* whose line is the bare text (any other type is prefixed with "[type] ")
ConsoleLines == { <<"hello">> }
PageErrorLines == { <<"[Page Error]", "boom">> }

ListenerLines(l) == Cardinality({i \in 1..Len(l) : l[i] \in ConsoleLines \cup PageErrorLines})

\* the page emits a console message or a page error and the listener of the
\* call in progress pushes its line; the lines are taken up at the
\* quiescence wait (of doActionWithOptions or of an inspection operation),
\* which is where the code looks at their arrival. The two listeners do not
\* read each other's lines: of a page error and the console messages of one
\* call the page error is taken first.
pageEvent ==
  /\ pc \in {"quiesce", "inspectWait"}
  /\ ListenerLines(logs) < MaxLogs
  /\ \/ /\ ConsoleListener(call.target, callNo) \in listeners
        /\ \E line \in ConsoleLines : logs' = Append(logs, line)
     \/ /\ ErrorListener(call.target, callNo) \in listeners
        /\ ListenerLines(logs) = 0
        /\ \E line \in PageErrorLines : logs' = Append(logs, line)
  /\ UNCHANGED <<session, driver, pc, callNo, call, events, outcome>>
  /\ UNCHANGED harness

\* pWaitFor(() => Date.now() - lastLogTs >= 500, {timeout: 3000}).catch(() => {})
quiesce ==
  /\ pc = "quiesce"
  /\ Log(<<"quiesce">>)
  /\ pc' = "shotWebp"
  /\ UNCHANGED <<session, driver, callNo, call, logs, outcome>>
  /\ UNCHANGED harness

\* the base64 payloads page.screenshot may resolve to
Payloads == {"", "AAAA"}

\* a screenshot handed on as the bare payload
DataUri_bare(fmt, payload) == <<payload>>

\* `data:image/${fmt};base64,${payload}`
DataUri(fmt, payload) == <<"data:image/", fmt, ";base64,", payload>>

\* logs.join("\n")
RECURSIVE Join(_)
Join(lines) ==
  IF lines = <<>> THEN <<>>
  ELSE IF Len(lines) = 1 THEN Head(lines)
  ELSE Head(lines) \o <<"\n">> \o Join(Tail(lines))

\* a result built before the logs are joined into it
ReturnResult_withoutLogs(shot) ==
  /\ listeners' = DetachListeners(page, callNo)
  /\ Finish("returned", "none",
       [NoOutcome EXCEPT
          !.present = {"screenshot", "logs", "currentUrl", "currentMousePosition"},
          !.screenshot = shot,
          !.currentUrl = PageRec(page).url,
          !.currentMousePosition = currentMousePosition])

\* lines 294-303: detach the two listeners and return the result
ReturnResult(shot) ==
  /\ listeners' = DetachListeners(page, callNo)
  /\ Finish("returned", "none",
       [NoOutcome EXCEPT
          !.present = {"screenshot", "logs", "currentUrl", "currentMousePosition"},
          !.screenshot = shot,
          !.logs = Join(logs),
          !.currentUrl = PageRec(page).url,
          !.currentMousePosition = currentMousePosition])

\* an emptiness test that never fires: no fallback, no fatal error
IsEmpty_never(b) == FALSE

\* !screenshotBase64
IsEmpty(b) == b = ""

\* page.screenshot({type: "webp"}) and the code up to the next await
shotWebp ==
  /\ pc = "shotWebp"
  /\ \/ \E b \in Payloads :
          IF ~IsEmpty(b)
          THEN /\ Log(<<"webp:payload", "detach">>)
               /\ ReturnResult(DataUri("webp", b))
          ELSE /\ Log(<<"webp:empty">>)
               /\ pc' = "shotPng"
               /\ UNCHANGED <<listeners, outcome>>
     \/ \* screenshot rejects: doActionWithOptions raises
        /\ Log(<<"webp:rejects">>)
        /\ Finish("raised", "screenshot", NoOutcome)
        /\ UNCHANGED listeners
  /\ UNCHANGED <<session, gone, openPages, callNo, call, logs>>
  /\ UNCHANGED harness

\* page.screenshot({type: "png"}) and the rest of doActionWithOptions
shotPng ==
  /\ pc = "shotPng"
  /\ \/ \E b \in Payloads :
          IF ~IsEmpty(b)
          THEN /\ Log(<<"png:payload", "detach">>)
               /\ ReturnResult(DataUri("png", b))
          ELSE /\ Log(<<"png:empty">>)
               /\ Finish("raised", "Failed to take screenshot.", NoOutcome)
               /\ UNCHANGED listeners
     \/ \* screenshot rejects: doActionWithOptions raises
        /\ Log(<<"png:rejects">>)
        /\ Finish("raised", "screenshot", NoOutcome)
        /\ UNCHANGED listeners
  /\ UNCHANGED <<session, gone, openPages, callNo, call, logs>>
  /\ UNCHANGED harness

(* -------------------------- inspection operations ----------------------- *)
InspectOps == {"getPageSource", "getPageTitle", "getPageMeta", "inspectElement"}

\* the keys of the result an inspection operation returns
ResultKeys(op) ==
  {"logs", "currentUrl", "currentMousePosition"} \cup
    (IF op = "getPageSource" THEN {"htmlSource", "originalLength", "processedLength"}
     ELSE IF op = "getPageTitle" THEN {"pageTitle"}
     ELSE IF op = "getPageMeta" THEN {"metaData"}
     ELSE {"elementInfo"})

\* getPageSource, getPageTitle, getPageMeta or inspectElement is called; it
\* raises without a page and attaches its two listeners otherwise
inspect ==
  /\ pc = "idle"
  /\ callNo < CallLimit
  /\ callNo' = callNo + 1
  /\ \E op \in InspectOps :
     \E a \in (IF op = "inspectElement" THEN Coords ELSE {<<>>}) :
       call' = [NoCall EXCEPT !.op = op, !.arg = a, !.held = browser,
                              !.target = page, !.stale = listeners]
  /\ logs' = <<>>
  /\ IF NotLaunched(page)
     THEN /\ events' = <<>>
          /\ Finish("raised", "notLaunched", NoOutcome)
          /\ UNCHANGED listeners
     ELSE /\ listeners' = AttachListeners(page, callNo + 1)
          /\ events' = <<"attach">>
          /\ pc' = "inspectOp"
          /\ outcome' = NoOutcome
  /\ UNCHANGED <<session, gone, openPages>>
  /\ UNCHANGED harness

\* a catch clause that rethrows without detaching the listeners
InspectFailed_keepsListeners(e) ==
  /\ logs' = IF e # "TimeoutError" THEN Append(logs, <<"[Error]", e>>) ELSE logs
  /\ listeners' = listeners
  /\ call' = [call EXCEPT !.opResult = e]
  /\ Finish("raised", e, NoOutcome)

\* the catch clause of an inspection operation: log the error unless it is a
\* TimeoutError, detach the two listeners, rethrow
InspectFailed(e) ==
  /\ logs' = IF e # "TimeoutError" THEN Append(logs, <<"[Error]", e>>) ELSE logs
  /\ listeners' = DetachListeners(page, callNo)
  /\ call' = [call EXCEPT !.opResult = e]
  /\ Finish("raised", e, NoOutcome)

\* getPageSource, getPageTitle, getPageMeta: page.content(), page.title() or
\* page.evaluate(...) resolves or rejects
pageQuery ==
  /\ pc = "inspectOp"
  /\ call.op \in InspectOps \ {"inspectElement"}
  /\ \/ /\ Log(<<"op">>)
        /\ call' = [call EXCEPT !.opResult = "ok"]
        /\ pc' = "inspectWait"
        /\ UNCHANGED <<logs, listeners, outcome>>
     \/ /\ Log(<<"op", "detach">>)
        /\ InspectFailed("Error")
  /\ UNCHANGED <<session, gone, openPages, callNo>>
  /\ UNCHANGED harness

\* what document.elementFromPoint(x, y) may return
AtPoint == {"element", "null"}

\* inspectElement: parse "x,y", then page.evaluateHandle(elementFromPoint)
\* and the test of the handle it resolved to
inspectElement ==
  /\ pc = "inspectOp"
  /\ call.op = "inspectElement"
  /\ IF Malformed(call.arg)
     THEN /\ Log(<<"op", "detach">>)
          /\ InspectFailed("Invalid coordinates")
     ELSE \/ \E v \in AtPoint :
               LET element == JSHandle(v)
               IN IF Falsy(element)
                  THEN /\ Log(<<"op", "evaluateHandle", "detach">>)
                       /\ InspectFailed("No element found")
                  ELSE /\ Log(<<"op", "evaluateHandle">>)
                       /\ call' = [call EXCEPT !.element = element]
                       /\ pc' = "elementInfo"
                       /\ UNCHANGED <<logs, listeners, outcome>>
          \/ /\ Log(<<"op", "evaluateHandle:rejects", "detach">>)
             /\ InspectFailed("Error")
  /\ UNCHANGED <<session, gone, openPages, callNo>>
  /\ UNCHANGED harness

\* inspectElement: page.evaluate((el) => { if (!el) return null; ... }, element)
elementInfo ==
  /\ pc = "elementInfo"
  /\ \/ /\ Log(<<"evaluate">>)
        /\ call' = [call EXCEPT
             !.opResult = "ok",
             !.elementInfo = IF call.element.of = "null" THEN Null ELSE ElementInfo]
        /\ pc' = "inspectWait"
        /\ UNCHANGED <<logs, listeners, outcome>>
     \/ /\ Log(<<"evaluate:rejects", "detach">>)
        /\ InspectFailed("Error")
  /\ UNCHANGED <<session, gone, openPages, callNo>>
  /\ UNCHANGED harness

\* the quiescence wait of an inspection operation ends; the two listeners are
\* detached and the result is returned
inspectReturn ==
  /\ pc = "inspectWait"
  /\ Log(<<"quiesce", "detach">>)
  /\ listeners' = DetachListeners(page, callNo)
  /\ Finish("returned", "none",
       [NoOutcome EXCEPT
          !.present = ResultKeys(call.op),
          !.logs = Join(logs),
          !.currentUrl = PageRec(page).url,
          !.currentMousePosition = currentMousePosition,
          !.elementInfo = call.elementInfo])
  /\ UNCHANGED <<session, gone, openPages, callNo, call, logs>>
  /\ UNCHANGED harness

(* ---------------------------- specification ----------------------------- *)
Next ==
  \/ launchBrowser \/ launchLocalBranch \/ launchRemoteBranch
  \/ tryChromeHostUrl \/ discoverChromeHostUrl
  \/ connectVersion \/ connectWs \/ connectPages \/ connectNewPage
  \/ launchLocal \/ localNewPage
  \/ closeBrowser
  \/ doAction \/ simpleOp \/ resize
  \/ mouseStart \/ requestListener \/ mousePrimitive \/ mouseSettle
  \/ waitForNavigation \/ waitTillHTMLStable
  \/ navigateToUrl \/ navRoute \/ createNewTab \/ navGoto \/ navReload
  \/ pageEvent \/ quiesce \/ shotWebp \/ shotPng
  \/ inspect \/ pageQuery \/ inspectElement \/ elementInfo \/ inspectReturn

Spec == Init /\ [][Next]_vars

(* --------------------- waitTillHTMLStable on its own -------------------- *)
\* the stability detector run by itself: probe holds its locals, its
\* position and the content sizes it has sampled
StableTimeout == 5000
checkDurationMsecs == 500
maxChecks == StableTimeout \div checkDurationMsecs
minStableSizeIterations == 3

\* html.length of what page.content() resolves to: the serialised document,
\* never empty
HtmlSizes == {1, 2}

sessionVars == <<session, driver, pc, callNo, call, logs, events, outcome>>

StableInit ==
  /\ Constructed
  /\ script = <<>>
  /\ probe = [fn |-> "waitTillHTMLStable", pc |-> "test", samples |-> <<>>,
              lastHTMLSize |-> 0, checkCounts |-> 1, countStableSizeIterations |-> 0]

\* a loop test that lets one more iteration through
LoopTest_oneMore(c) == c <= maxChecks + 1

\* checkCounts <= maxChecks (the value before the increment)
LoopTest(c) == c <= maxChecks

\* a comparison that takes any non-first sample for an unchanged one
Stable_anySize(last, current) == last # 0

\* lastHTMLSize !== 0 && currentHTMLSize === lastHTMLSize
Stable(last, current) == last # 0 /\ current = last

\* while (checkCounts++ <= maxChecks)
stableTest ==
  /\ probe.fn = "waitTillHTMLStable"
  /\ probe.pc = "test"
  /\ probe' = [probe EXCEPT
       !.checkCounts = @ + 1,
       !.pc = IF LoopTest(probe.checkCounts) THEN "content" ELSE "done"]
  /\ UNCHANGED <<sessionVars, script>>

\* await page.content(), the two counters and the break
stableSample ==
  /\ probe.fn = "waitTillHTMLStable"
  /\ probe.pc = "content"
  /\ \/ \E currentHTMLSize \in HtmlSizes :
          LET count == IF Stable(probe.lastHTMLSize, currentHTMLSize)
                       THEN probe.countStableSizeIterations + 1
                       ELSE 0
              break == count >= minStableSizeIterations
          IN probe' = [probe EXCEPT
               !.samples = Append(@, currentHTMLSize),
               !.countStableSizeIterations = count,
               !.lastHTMLSize = IF break THEN @ ELSE currentHTMLSize,
               !.pc = IF break THEN "done" ELSE "delay"]
     \/ \* page.content() rejects: the detector raises
        probe' = [probe EXCEPT !.pc = "raised"]
  /\ UNCHANGED <<sessionVars, script>>

\* await delay(checkDurationMsecs)
stableDelay ==
  /\ probe.fn = "waitTillHTMLStable"
  /\ probe.pc = "delay"
  /\ probe' = [probe EXCEPT !.pc = "test"]
  /\ UNCHANGED <<sessionVars, script>>

StableNext == stableTest \/ stableSample \/ stableDelay

\* page.content() resolves or rejects and the delay elapses
StableSpec == StableInit /\ [][StableNext]_vars /\ WF_vars(StableNext)

(* ------------------------ getRootDomain on its own ----------------------- *)
\* the strings getRootDomain is applied to: URLs of every scheme, with and
\* without www., port, path and trailing slash, and strings that are no URL
Hosts == {"example.com", "site.a", "localhost"}
Ports == {<<>>, <<":", "3000">>}
Paths == {<<>>, <<"/">>, <<"/", "path">>, <<"/", "path", "/">>}

UrlOf(scheme, www, host, port, path) ==
  <<scheme, ":", "/", "/">> \o www \o <<host>> \o port \o path

\* a URL and one that differs from it in scheme, www. and trailing slash only
UrlPairs ==
  {[url |-> UrlOf(s1, w1, h, p, path \o t1), other |-> UrlOf(s2, w2, h, p, path \o t2)] :
     s1 \in SpecialSchemes, s2 \in SpecialSchemes,
     w1 \in {<<>>, <<"www.">>}, w2 \in {<<>>, <<"www.">>},
     h \in Hosts, p \in Ports, path \in {<<>>, <<"/", "path">>},
     t1 \in {<<>>, <<"/">>}, t2 \in {<<>>, <<"/">>}}

\* strings without a scheme: a host, a host with a port, a www. host
Bare ==
  {[url |-> <<h>> \o p, other |-> <<h>> \o p] : h \in Hosts, p \in Ports}
    \cup {[url |-> <<"www.", h>>, other |-> <<"www.", h>>] : h \in Hosts}

DomainInit ==
  /\ Constructed
  /\ script = <<>>
  /\ \E in \in UrlPairs \cup Bare :
       probe = [fn |-> "getRootDomain", n |-> 0, url |-> in.url, other |-> in.other,
                out |-> <<>>, outOther |-> <<>>, again |-> <<>>]

\* getRootDomain(url) and getRootDomain(other)
normalize ==
  /\ probe.fn = "getRootDomain"
  /\ probe.n = 0
  /\ probe' = [probe EXCEPT !.n = 1,
                            !.out = getRootDomain(probe.url),
                            !.outOther = getRootDomain(probe.other)]
  /\ UNCHANGED <<sessionVars, script>>

\* getRootDomain(getRootDomain(url))
normalizeAgain ==
  /\ probe.fn = "getRootDomain"
  /\ probe.n = 1
  /\ probe' = [probe EXCEPT !.n = 2, !.again = getRootDomain(probe.out)]
  /\ UNCHANGED <<sessionVars, script>>

DomainNext == normalize \/ normalizeAgain

DomainSpec == DomainInit /\ [][DomainNext]_vars

(* ------------------------- the README's usage --------------------------- *)
\* launchBrowser with remote connection disabled, navigateToUrl, click at
\* "100,200", closeBrowser
Usage(url) ==
  << [op |-> "launchBrowser", arg |-> <<>>],
     [op |-> "navigateToUrl", arg |-> url],
     [op |-> "click", arg |-> <<"100", "200">>],
     [op |-> "closeBrowser", arg |-> <<>>] >>

UsageInit ==
  /\ Constructed
  /\ probe = NoProbe
  /\ \E url \in {u \in Urls : Navigable(StripTrailingSlash(u))} : script = Usage(url)

\* a driver operation rejected, timed out or captured nothing
DriverFailures ==
  {"launch:rejects", "newPage:rejects", "pages:rejects", "goto:rejects", "goto:timeout",
   "reload:rejects", "reload:timeout", "primitive:rejects", "stable:rejects",
   "webp:rejects", "png:rejects", "png:empty"}

\* the caller follows its script, remote connection is disabled and no
\* driver operation has failed
OnScript ==
  /\ callNo > 0 =>
       /\ call.op = script[callNo].op
       /\ call.arg = script[callNo].arg
       /\ ~call.remoteEnabled
  /\ \A i \in 1..Len(events) : events[i] \notin DriverFailures

Scripted(step) == step /\ OnScript'

UsageNext ==
  \/ Scripted(launchBrowser) \/ Scripted(launchLocalBranch)
  \/ Scripted(launchLocal) \/ Scripted(localNewPage)
  \/ Scripted(navigateToUrl) \/ Scripted(navRoute) \/ Scripted(createNewTab)
  \/ Scripted(navGoto) \/ Scripted(waitTillHTMLStable)
  \/ Scripted(doAction) \/ Scripted(mouseStart) \/ Scripted(requestListener)
  \/ Scripted(mousePrimitive) \/ Scripted(mouseSettle) \/ Scripted(waitForNavigation)
  \/ Scripted(pageEvent) \/ Scripted(quiesce) \/ Scripted(shotWebp) \/ Scripted(shotPng)
  \/ Scripted(closeBrowser)

UsageSpec == UsageInit /\ [][UsageNext]_vars

(* ------------------------ launches and closes alone --------------------- *)
\* The caller only launches and closes. Every step of a call in progress is
\* a pending promise of the driver, of axios or of host discovery: a step
\* that can settle does settle, which is the weak fairness of the steps; a
\* request that is never answered is the state "pending", which no step
\* leaves.
LaunchNext ==
  \/ launchBrowser \/ launchLocalBranch \/ launchRemoteBranch
  \/ tryChromeHostUrl \/ discoverChromeHostUrl
  \/ connectVersion \/ connectWs \/ connectPages \/ connectNewPage
  \/ launchLocal \/ localNewPage
  \/ closeBrowser

LaunchSpec == Init /\ [][LaunchNext]_vars /\ WF_vars(LaunchNext)

(* ------------- doActionWithOptions with the time of its wait ------------ *)
\* One call of type() on a launched session, with the clock the quiescence
\* wait reads: probe holds Date.now() since the call began, lastLogTs, and
\* the time pWaitFor has waited, all in msecs.
MaxOpTicks == 6
MaxWaitLogs == 7

\* pWaitFor(condition, {timeout: 3_000, interval: 100})
interval == 100
timeout == 3000
QuietMsecs == 500

\* the state launchBrowser leaves when remote connection is disabled and the
\* local launch succeeds
Launched ==
  /\ browser = "local"
  /\ page = 1
  /\ currentMousePosition = Undefined
  /\ isUsingRemoteBrowser = FALSE
  /\ gone = {}
  /\ openPages = <<[id |-> 1, owner |-> "held", url |-> AboutBlank]>>
  /\ listeners = {}
  /\ pc = "idle"
  /\ callNo = 1
  /\ call = [NoCall EXCEPT !.op = "launchBrowser"]
  /\ logs = <<>>
  /\ events = <<"reset", "launch">>
  /\ outcome = [NoOutcome EXCEPT !.status = "returned"]

\* let lastLogTs = Date.now(), as the call begins
QuiesceInit ==
  /\ Launched
  /\ script = << [op |-> "launchBrowser", arg |-> <<>>], [op |-> "type", arg |-> <<>>] >>
  /\ probe = [fn |-> "pWaitFor", now |-> 0, lastLogTs |-> 0, waited |-> 0]

\* the caller issues the call of its script
typeCall ==
  /\ doAction
  /\ call'.op = script[callNo'].op
  /\ call'.arg = script[callNo'].arg

\* 100 msecs pass while the operation is pending
opTick ==
  /\ pc = "action"
  /\ probe.now < MaxOpTicks * interval
  /\ probe' = [probe EXCEPT !.now = @ + interval]
  /\ UNCHANGED <<session, driver, pc, callNo, call, logs, events, outcome, script>>

\* consoleListener: a console message of type "log" arrives, its line is
\* pushed and lastLogTs = Date.now()
consoleListener ==
  /\ pc \in {"action", "quiesce"}
  /\ ConsoleListener(call.target, callNo) \in listeners
  /\ Len(logs) < MaxWaitLogs
  /\ \E line \in ConsoleLines : logs' = Append(logs, line)
  /\ probe' = [probe EXCEPT !.lastLogTs = probe.now]
  /\ UNCHANGED <<session, driver, pc, callNo, call, events, outcome, script>>

\* a condition that is never met
Quiet_never == FALSE

\* () => Date.now() - lastLogTs >= 500
Quiet == probe.now - probe.lastLogTs >= QuietMsecs

\* the wait has reached its timeout
TimedOut == probe.waited >= timeout

\* pWaitFor: the condition is false and the timeout is not reached; the next
\* poll is one interval later
pWaitForPoll ==
  /\ pc = "quiesce"
  /\ ~Quiet
  /\ ~TimedOut
  /\ probe' = [probe EXCEPT !.now = @ + interval, !.waited = @ + interval]
  /\ UNCHANGED <<session, driver, pc, callNo, call, logs, events, outcome, script>>

\* pWaitFor resolves, the condition being true, or rejects at the timeout
\* and .catch(() => {}) swallows the rejection
pWaitFor ==
  /\ Quiet \/ TimedOut
  /\ quiesce

QuiesceNext ==
  \/ typeCall \/ simpleOp \/ opTick \/ consoleListener
  \/ pWaitForPoll \/ pWaitFor \/ shotWebp \/ shotPng

QuiesceSpec == QuiesceInit /\ [][QuiesceNext]_vars

(* ------------------------------ properties ------------------------------ *)
\* a call has finished and control is back with the caller
Done(ops) == pc = "idle" /\ call.op \in ops

ActionOps == SimpleOps \cup MouseOps \cup {"resize", "navigateToUrl"}

\* the events of the call that are in set S, in order
Only(S) == SelectSeq(events, LAMBDA e : e \in S)

\* e occurs among the events of the call
Did(e) == \E i \in 1..Len(events) : events[i] = e

\* C1: whenever the session holds an active page handle it also holds a
\* driver handle, in every state any sequence of calls can reach, also when
\* driver operations fail.
C1_PageImpliesBrowser == page # NoPage => browser # NoHandle

\* a call failed and left the session with its page and its driver handle
C1_Witness ==
  /\ pc = "idle"
  /\ outcome.status = "raised"
  /\ page # NoPage
  /\ browser # NoHandle

AcquireEvents == {"connect", "connect:rejects", "launch", "launch:rejects"}

\* C2: a launchBrowser on a session that holds a driver handle has released
\* that handle (disconnect if remote, close if local) and reset the session
\* state before it launches or connects any driver, with remote connection
\* disabled and enabled alike.
C2_RelaunchClosesFirst ==
  (call.op = "launchBrowser" /\ call.held # NoHandle) =>
    \A i \in 1..Len(events) :
      events[i] \in AcquireEvents =>
        \E j \in 1..(i - 1) :
          /\ events[j] = (IF call.held = "remote" THEN "disconnect" ELSE "close")
          /\ \E k \in (j + 1)..(i - 1) : events[k] = "reset"

\* C3: every driver handle the session gave up was released exactly once, a
\* remote one by disconnect and a local one by close; none was overwritten or
\* dropped unreleased.
C3_ReleasedExactlyOnce ==
  \A g \in gone :
    g.releases = <<IF g.kind = "remote" THEN "disconnect" ELSE "close">>

StrategyEvents == {"tryChromeHostUrl", "discoverChromeHostUrl", "launch", "launch:rejects"}

\* the strategies a launch tried, in order
Strategies ==
  [i \in 1..Len(Only(StrategyEvents)) |->
     IF Only(StrategyEvents)[i] = "tryChromeHostUrl" THEN "operator"
     ELSE IF Only(StrategyEvents)[i] = "discoverChromeHostUrl" THEN "discover"
     ELSE "local"]

\* C4: a launchBrowser with remote connection enabled tries the operator host
\* (only if configured), then discovery, then the local launch, and stops at
\* the first success: it returns with the flag true exactly when the operator
\* host or a discovered host connected, and with the flag false and a local
\* handle when every remote attempt failed; a failed operator host is always
\* followed by discovery.
C4_FallbackOrder ==
  (Done({"launchBrowser"}) /\ call.remoteEnabled) =>
     /\ Strategies \in
          (IF call.host
           THEN {<<"operator">>, <<"operator", "discover">>, <<"operator", "discover", "local">>}
           ELSE {<<"discover">>, <<"discover", "local">>})
     /\ call.connected =>
          /\ outcome.status = "returned"
          /\ isUsingRemoteBrowser /\ browser = "remote"
          /\ Strategies[Len(Strategies)] = call.stage
          /\ call.stage \in {"operator", "discover"}
     /\ ~call.connected =>
          /\ Strategies[Len(Strategies)] = "local"
          /\ outcome.status = "returned" =>
               ~isUsingRemoteBrowser /\ browser = "local" /\ page # NoPage

\* the operator host failed, discovery connected, no local launch was tried
C4_Witness ==
  /\ Done({"launchBrowser"})
  /\ call.remoteEnabled
  /\ Strategies = <<"operator", "discover">>
  /\ call.connected
  /\ isUsingRemoteBrowser

Idle ==
  /\ browser = NoHandle
  /\ page = NoPage
  /\ currentMousePosition = Undefined
  /\ isUsingRemoteBrowser = FALSE

C6_MalformedIsFatal ==
  (Done(MouseOps \cup {"resize"}) /\ Malformed(call.arg)) =>
     outcome.status = "raised"

\* C7: when a doAction call that attached its listeners has finished, by
\* returning or by raising, its console and page-error listeners are off the
\* page and every listener that was there before is still there.
C7_ListenersDetached ==
  (Done(ActionOps) /\ Did("attach")) =>
     /\ ConsoleListener(call.target, callNo) \notin listeners
     /\ ErrorListener(call.target, callNo) \notin listeners
     /\ call.stale \subseteq listeners

ShotEvents == {"webp:payload", "webp:empty", "webp:rejects",
               "png:payload", "png:empty", "png:rejects"}

\* C8: the executor tries webp, then png, each at most once: a non-empty webp
\* is returned as a webp data URI with no png attempt, an empty webp is
\* followed by exactly one png attempt whose non-empty result is returned as
\* a png data URI, an empty png raises, and no result carries an empty
\* payload.
C8_ScreenshotFallback ==
  (Done(ActionOps) /\ Did("quiesce")) =>
     /\ Only(ShotEvents) \in
          { <<"webp:payload">>, <<"webp:rejects">>, <<"webp:empty", "png:payload">>,
            <<"webp:empty", "png:empty">>, <<"webp:empty", "png:rejects">> }
     /\ Only(ShotEvents) = <<"webp:payload">> =>
          /\ outcome.status = "returned"
          /\ SubSeq(outcome.screenshot, 1, 3) = <<"data:image/", "webp", ";base64,">>
     /\ Only(ShotEvents) = <<"webp:empty", "png:payload">> =>
          /\ outcome.status = "returned"
          /\ SubSeq(outcome.screenshot, 1, 3) = <<"data:image/", "png", ";base64,">>
     /\ Only(ShotEvents) = <<"webp:empty", "png:empty">> =>
          /\ outcome.status = "raised"
          /\ outcome.error = "Failed to take screenshot."
     /\ outcome.status = "returned" =>
          /\ "screenshot" \in outcome.present
          /\ Len(outcome.screenshot) = 4
          /\ outcome.screenshot[4] # ""

\* the png fallback was taken and its payload returned
C8_Witness ==
  /\ Done(ActionOps)
  /\ Only(ShotEvents) = <<"webp:empty", "png:payload">>
  /\ outcome.status = "returned"
  /\ outcome.screenshot = DataUri("png", "AAAA")

OpErrors == {"Error", "Invalid coordinates", "Invalid size"}

\* the number of lines of l equal to line
Count(l, line) == Cardinality({i \in 1..Len(l) : l[i] = line})

\* C9: when the operation of a doAction raised an error that is no driver
\* timeout, doAction does not raise it: the error is one line of the log, the
\* quiescence wait and the screenshot capture ran, and, the screenshot
\* obtained, a result with screenshot, logs, current URL and last mouse
\* position is returned.
C9_OperationErrorContained ==
  (Done(ActionOps) /\ call.opResult \in OpErrors) =>
     /\ outcome.error \notin OpErrors
     /\ Count(logs, <<"[Error]", call.opResult>>) = 1
     /\ Did("quiesce")
     /\ Only(ShotEvents) # <<>>
     /\ (Did("webp:payload") \/ Did("png:payload")) =>
          /\ outcome.status = "returned"
          /\ outcome.present = {"screenshot", "logs", "currentUrl", "currentMousePosition"}
          /\ outcome.logs = Join(logs)
          /\ outcome.currentUrl = PageRec(page).url
          /\ outcome.currentMousePosition = currentMousePosition

\* a driver error inside the operation, and a result all the same
C9_Witness ==
  /\ Done(ActionOps)
  /\ call.opResult = "Error"
  /\ outcome.status = "returned"
  /\ outcome.present = {"screenshot", "logs", "currentUrl", "currentMousePosition"}

\* the logs field of the result mentions an error of the operation
Traced == \E i \in 1..Len(outcome.logs) : outcome.logs[i] = "[Error]"

\* C10 as stated: every result of an action whose operation failed
\* recoverably, by a benign navigation timeout as well, carries the failure
\* in its logs field.
C10_EveryFailureTraced ==
  (Done(ActionOps) /\ outcome.status = "returned"
     /\ call.opResult \in OpErrors \cup {"TimeoutError"}) => Traced

\* C10 amended: every result of an action whose operation failed with an
\* error other than a driver timeout carries that error in its logs field.
C10_NonTimeoutFailureTraced ==
  (Done(ActionOps) /\ outcome.status = "returned" /\ call.opResult \in OpErrors) =>
     \E i \in 1..(Len(outcome.logs) - 1) :
        outcome.logs[i] = "[Error]" /\ outcome.logs[i + 1] = call.opResult

\* a malformed size, reported in the logs of the result
C10_Witness ==
  /\ Done({"resize"})
  /\ call.opResult = "Invalid size"
  /\ outcome.status = "returned"
  /\ Traced

\* the operations that need the active page
PageOps == SimpleOps \cup MouseOps \cup {"resize"} \cup InspectOps

\* C11: a page operation (click, hover, type, scrollDown, scrollUp, resize,
\* getPageSource, getPageTitle, getPageMeta, inspectElement, all through
\* doAction or their own test) called without an active page, and
\* navigateToUrl called without a driver handle, raises "Browser is not
\* launched" at once: it attaches no listener, invokes no driver operation
\* and leaves session and driver as they were; after closeBrowser the session
\* has neither page nor handle, so every such call fails this way.
C11_NotLaunchedFailsFast ==
  /\ [][(/\ pc = "idle"
         /\ callNo' = callNo + 1
         /\ \/ call'.op \in PageOps /\ page = NoPage
            \/ call'.op = "navigateToUrl" /\ browser = NoHandle)
        => /\ pc' = "idle"
           /\ outcome'.status = "raised"
           /\ outcome'.error = "notLaunched"
           /\ outcome'.present = {}
           /\ events' = <<>>
           /\ UNCHANGED <<session, driver>>]_vars
  /\ [](Done({"closeBrowser"}) => page = NoPage /\ browser = NoHandle)

\* an inspection operation called after a closeBrowser that released a handle
C11_Witness ==
  /\ Done(InspectOps)
  /\ outcome.status = "raised"
  /\ outcome.error = "notLaunched"
  /\ \E g \in gone : g.releases # <<>>
  /\ Idle
  /\ events = <<>>

\* C12: the second of two consecutive navigateToUrl calls whose URLs share a
\* root domain opens no new page and has the first call's page as the active
\* page (the first call's page still being open).
C12_SameSiteReusesPage ==
  (Done({"navigateToUrl"}) /\ call.prev # NoPage) =>
     /\ ~Did("newPage")
     /\ page = call.prev

\* C13: inspectElement with a well-formed coordinate at which the page has no
\* element (the driver's lookups themselves resolving) raises an
\* element-not-found error and returns no result.
C13_NoElementIsFatal ==
  (/\ Done({"inspectElement"})
   /\ ~Malformed(call.arg)
   /\ call.element = JSHandle("null")
   /\ call.opResult = "ok") =>
     /\ outcome.status = "raised"
     /\ outcome.error = "No element found"
     /\ outcome.present = {}

\* the detector has stopped
Stopped == probe.pc \in {"done", "raised"}

\* the last n samples are of one size
LastEqual(n) ==
  /\ Len(probe.samples) >= n
  /\ \A i \in (Len(probe.samples) - n + 2)..Len(probe.samples) :
        probe.samples[i] = probe.samples[i - 1]

\* C14: with timeout 5000 and interval 500 the stability detector takes at
\* most 10 content-size samples and always stops, whatever sizes it
\* observes, a sequence that never repeats included.
C14_StableTerminates ==
  /\ [](Len(probe.samples) <= 10)
  /\ <>Stopped

\* ten samples, each different from the one before, and the detector is done
C14_Witness ==
  /\ probe.pc = "done"
  /\ Len(probe.samples) = 10
  /\ \A i \in 2..10 : probe.samples[i] # probe.samples[i - 1]

\* C20 as stated: three equal-sized samples in a row stop the detector, and
\* it otherwise samples until the budget is used up.
C20_ThreeEqualSamplesStop ==
  /\ (LastEqual(3) /\ probe.pc \notin {"content", "raised"}) => probe.pc = "done"
  /\ (probe.pc = "done" /\ ~LastEqual(3)) => Len(probe.samples) = 10

\* C20 amended: the detector stops as soon as three samples in a row each
\* equal the sample before (four equal-sized samples in a row), and it
\* otherwise samples until the budget of ten is used up.
C20_FourEqualSamplesStop ==
  /\ LastEqual(4) => probe.pc = "done"
  /\ (probe.pc = "done" /\ ~LastEqual(4)) => Len(probe.samples) = 10

\* stopped early, by four equal samples
C20_Witness ==
  /\ probe.pc = "done"
  /\ Len(probe.samples) = 4
  /\ LastEqual(4)

\* C15: getRootDomain applied to its own output returns that output, for
\* URLs with a port and for strings that do not parse alike, and URLs that
\* differ only in scheme, a leading www. and a trailing slash have the same
\* root domain.
C15_RootDomainIdempotent ==
  /\ probe.n = 2 => probe.again = probe.out
  /\ probe.n >= 1 => probe.out = probe.outOther

\* C16: launchBrowser raises only when the local launch fails (launch() or
\* its newPage() rejects): whatever failed on the remote side (host
\* validation, endpoint resolution, connect, page adoption, discovery), a
\* launch that does not end in a failed local launch returns with a driver
\* handle and an active page.
C16_OnlyLocalLaunchRaises ==
  Done({"launchBrowser"}) =>
     /\ outcome.status \in {"returned", "raised"}
     /\ outcome.status = "raised" =>
          /\ outcome.error \in {"launch", "newPage"}
          /\ Strategies # <<>>
          /\ Strategies[Len(Strategies)] = "local"
          /\ ~call.connected
     /\ outcome.status = "returned" => browser # NoHandle /\ page # NoPage

\* the operator host connected but its pages could not be adopted, discovery
\* failed as well, and the launch returned with the local browser
C16_Witness ==
  /\ Done({"launchBrowser"})
  /\ Strategies = <<"operator", "discover", "local">>
  /\ Did("connect")
  /\ outcome.status = "returned"
  /\ browser = "local"

\* C17: no step of a navigateToUrl call closes a page: every open page stays
\* open, in order; between launch and close the set of open pages changes
\* only by a navigateToUrl opening one page, which it makes the active page.
C17_NavigateClosesNoPage ==
  [][call'.op \notin {"launchBrowser", "closeBrowser"} =>
       /\ Len(openPages') >= Len(openPages)
       /\ \A i \in 1..Len(openPages) :
            /\ openPages'[i].id = openPages[i].id
            /\ openPages'[i].owner = openPages[i].owner
       /\ openPages' # openPages /\ Len(openPages') # Len(openPages) =>
            /\ call'.op = "navigateToUrl"
            /\ Len(openPages') = Len(openPages) + 1
            /\ page' = openPages'[Len(openPages')].id]_vars

\* a navigateToUrl opened a page and the pages open before are still open
C17_Witness ==
  /\ Done({"navigateToUrl"})
  /\ Did("newPage")
  /\ Len(HeldPages) >= 2
  /\ page = HeldPages[Len(HeldPages)].id

\* data:image/<format>;base64,<payload>
WellFormed(s) ==
  /\ Len(s) = 4
  /\ s[1] = "data:image/"
  /\ s[2] \in {"webp", "png"}
  /\ s[3] = ";base64,"
  /\ s[4] # ""

Matches(i) ==
  /\ HeldPages[i].url # <<>>
  /\ getRootDomain(HeldPages[i].url) = getRootDomain(call.arg)

GotoEvents == {"goto", "goto:rejects", "goto:timeout"}
ReloadEvents == {"reload", "reload:rejects", "reload:timeout"}

\* C19: navigateToUrl switches to the first page, in page order, whose root
\* domain is that of the URL asked for, and brings it to front; with no such
\* page it opens exactly one page and makes it active. On the active page it
\* then issues a goto if the page's URL and the URL asked for differ once a
\* trailing slash is removed from each, and a reload and no goto otherwise.
C19_Routing ==
  /\ [][(pc = "navPages" /\ pc' # "navPages" /\ ~Did("pages:rejects")') =>
          IF \E i \in 1..Len(HeldPages) : Matches(i)
          THEN \E i \in 1..Len(HeldPages) :
                 /\ Matches(i)
                 /\ \A j \in 1..(i - 1) : ~Matches(j)
                 /\ page' = HeldPages[i].id
                 /\ events' = events \o <<"bringToFront", "attach">>
                 /\ openPages' = openPages
                 /\ pc' = "action"
          ELSE pc' = "navNewTab" /\ page' = page /\ openPages' = openPages]_vars
  /\ [][(pc = "navNewTab" /\ pc' = "action") =>
          /\ Len(openPages') = Len(openPages) + 1
          /\ SubSeq(openPages', 1, Len(openPages)) = openPages
          /\ page' = openPages'[Len(openPages')].id
          /\ page' \notin OpenIds]_vars
  /\ [][(pc = "action" /\ call.op = "navigateToUrl" /\ pc' # "action") =>
          \E e \in (IF StripTrailingSlash(PageRec(page).url) # StripTrailingSlash(call.arg)
                    THEN GotoEvents ELSE ReloadEvents) :
             events' = events \o <<"op", e>>]_vars

\* of two open pages of the site asked for the first was taken, and, showing
\* the URL asked for, reloaded
C19_Witness ==
  /\ Done({"navigateToUrl"})
  /\ Did("bringToFront")
  /\ Did("reload")
  /\ \E i, j \in 1..Len(HeldPages) :
       /\ i < j
       /\ HeldPages[i].id = page
       /\ getRootDomain(HeldPages[j].url) = getRootDomain(call.arg)

\* C21: when a click or hover has finished, returned or raised, the request
\* listener it attached before the mouse primitive is no longer on the page,
\* also when the primitive or the wait that follows it raised.
C21_RequestListenerRemoved ==
  Done(MouseOps) => RequestListener(call.target, callNo) \notin listeners

\* s is an initial part of t
IsPrefix(s, t) == Len(s) <= Len(t) /\ SubSeq(t, 1, Len(s)) = s

MouseSteps ==
  {"request:on", "primitive", "primitive:rejects", "position", "delay",
   "waitForNavigation", "waitForNavigation:rejects", "stable", "stable:rejects",
   "request:off"}

\* the orders in which handleMouseInteraction may take its steps
MouseRuns ==
  { <<"request:on", "primitive:rejects">>,
    <<"request:on", "primitive", "position", "delay", "request:off">> } \cup
  { <<"request:on", "primitive", "position", "delay", w, "stable", "request:off">> :
      w \in {"waitForNavigation", "waitForNavigation:rejects"} } \cup
  { <<"request:on", "primitive", "position", "delay", w, "stable:rejects">> :
      w \in {"waitForNavigation", "waitForNavigation:rejects"} }

\* the navigation wait, or the stability detector, is under way or over
NavigationWaitRan ==
  pc = "waitNav" \/ Did("waitForNavigation") \/ Did("waitForNavigation:rejects")
StabilityDetectorRan ==
  pc \in {"waitNav", "waitStable"} \/ Did("stable") \/ Did("stable:rejects")

\* C22: a click or hover attaches the request listener, performs the mouse
\* primitive, records the coordinate as the last mouse position and waits
\* 100ms, in this order; the navigation wait and then the stability detector
\* run if and only if a request was observed between the attachment and the
\* end of the 100ms, and the detector runs also when the navigation wait
\* failed or timed out.
C22_MouseStepOrder ==
  call.op \in MouseOps =>
    /\ \E run \in MouseRuns : IsPrefix(Only(MouseSteps), run)
    /\ Did("position") => currentMousePosition = Some(call.arg)
    /\ Did("delay") =>
         /\ NavigationWaitRan <=> call.hasNetworkActivity
         /\ StabilityDetectorRan <=> call.hasNetworkActivity
    /\ Did("waitForNavigation:rejects") =>
         pc = "waitStable" \/ Did("stable") \/ Did("stable:rejects")

\* a click that set off a request: the navigation wait timed out, the
\* detector ran and the call returned
C22_Witness ==
  /\ Done(MouseOps)
  /\ call.hasNetworkActivity
  /\ Only(MouseSteps) = <<"request:on", "primitive", "position", "delay",
                           "waitForNavigation:rejects", "stable", "request:off">>
  /\ outcome.status = "returned"

\* the steps of one doActionWithOptions call, in the orders it may take them
ActionRuns ==
  { <<"attach", "op", "quiesce">> \o shots :
      shots \in { <<"webp:payload", "detach">>, <<"webp:rejects">>,
                  <<"webp:empty", "png:payload", "detach">>,
                  <<"webp:empty", "png:empty">>, <<"webp:empty", "png:rejects">> } }

\* C23: within one doAction call both listeners are attached before the
\* operation is invoked, the quiescence wait starts only when the operation
\* has finished and the screenshot is taken only when the wait has ended.
\* The wait ends when no log line has arrived for 500ms or when 3000ms have
\* passed; ending at the 3000ms cap raises nothing and is followed by the
\* screenshot and, the screenshot obtained, by the result.
C23_ActionStepOrder ==
  callNo = 2 =>
    /\ \E run \in ActionRuns : IsPrefix(events, run)
    /\ pc = "action" =>
         {ConsoleListener(page, callNo), ErrorListener(page, callNo)} \subseteq listeners
    /\ (pc = "quiesce" \/ probe.waited > 0) => call.opResult # "none"
    /\ probe.waited <= timeout
    /\ probe.waited > 0 => probe.now - probe.lastLogTs <= QuietMsecs
    /\ Did("quiesce") => Quiet \/ TimedOut
    /\ (pc \in {"shotWebp", "shotPng"} \/ Only(ShotEvents) # <<>>) => Did("quiesce")
    /\ (pc = "idle" /\ TimedOut) =>
         /\ Only(ShotEvents) # <<>>
         /\ outcome.status = "raised" =>
              outcome.error \in {"screenshot", "Failed to take screenshot."}
         /\ Did("detach") =>
              /\ outcome.status = "returned"
              /\ "screenshot" \in outcome.present
              /\ Len(outcome.screenshot) = 4

\* log lines kept arriving less than 500ms apart: the wait ran into its cap
\* and the call returned its result with the screenshot
C23_Witness ==
  /\ Done({"type"})
  /\ probe.fn = "pWaitFor"
  /\ TimedOut
  /\ ~Quiet
  /\ outcome.status = "returned"
  /\ "screenshot" \in outcome.present

\* C24: getPageSource, getPageTitle, getPageMeta and inspectElement take no
\* screenshot; when such a call has finished, returned or raised, the console
\* and page-error listeners it attached are off the page; and an error
\* raised inside it reaches the caller as that error, with no result.
C24_InspectionSkeleton ==
  call.op \in InspectOps =>
    /\ Only(ShotEvents) = <<>>
    /\ pc \notin {"quiesce", "shotWebp", "shotPng"}
    /\ pc = "idle" =>
         /\ "screenshot" \notin outcome.present
         /\ outcome.screenshot = NoShot
         /\ ConsoleListener(call.target, callNo) \notin listeners
         /\ ErrorListener(call.target, callNo) \notin listeners
         /\ call.stale \subseteq listeners
         /\ outcome.status = "returned" <=> call.opResult = "ok"
         /\ call.opResult \notin {"none", "ok"} =>
              /\ outcome.status = "raised"
              /\ outcome.error = call.opResult
              /\ outcome.present = {}

\* an inspection operation whose page query rejected: the error was raised
\* after the listeners attached had been detached
C24_Witness ==
  /\ Done(InspectOps)
  /\ Only({"attach", "op", "detach"}) = <<"attach", "op", "detach">>
  /\ outcome.status = "raised"
  /\ outcome.error = "Error"
  /\ listeners = call.stale

\* C25: a connect attempt whose version-info response lacks the socket
\* endpoint is a failed attempt: the step changes neither the driver handle,
\* the page handle nor the is-remote flag, acquires nothing from the driver,
\* is not followed by the driver's connect, and the launch goes on with the
\* next stage (discovery after the operator host, the local launch after
\* discovery).
C25_NoEndpointIsFailure ==
  /\ [][(pc = "connectVersion" /\ events' = Append(events, "version:noEndpoint")) =>
          /\ UNCHANGED <<session, driver>>
          /\ pc' = IF call.stage = "operator" THEN "discover" ELSE "launchLocal"]_vars
  /\ [](\A i \in 1..(Len(events) - 1) :
          events[i] = "version:noEndpoint" =>
            /\ Only(StrategyEvents)[Len(Only(StrategyEvents))] # "tryChromeHostUrl"
            /\ events[i + 1] \in {"discoverChromeHostUrl", "launch", "launch:rejects"})

\* the operator host and the discovered host both answered without the
\* endpoint, and the launch ended with a local browser
C25_Witness ==
  /\ Done({"launchBrowser"})
  /\ events = <<"tryChromeHostUrl", "version:noEndpoint",
                "discoverChromeHostUrl", "version:noEndpoint", "launch">>
  /\ outcome.status = "returned"
  /\ browser = "local"
  /\ ~isUsingRemoteBrowser

\* C26: every launchBrowser call finishes, returning with a local or a remote
\* browser or raising: no unresponsive remote host keeps it pending for ever.
C26_LaunchTerminates == [](pc # "idle" => <>(pc = "idle"))

\* C27: whenever no call is in progress and the session holds a driver
\* handle, the is-remote flag is true exactly if the handle came from a
\* remote connect; and every release closeBrowser has issued was a disconnect
\* for a remote handle and a close for a locally launched one.
C27_FlagMatchesHandle ==
  /\ (pc = "idle" /\ browser # NoHandle) => (isUsingRemoteBrowser <=> browser = "remote")
  /\ \A g \in gone : \A i \in 1..Len(g.releases) :
       g.releases[i] = IF g.kind = "remote" THEN "disconnect" ELSE "close"

\* a launch that connected to a remote browser, failed to adopt a page and
\* fell back to the local launch, followed by a closeBrowser that closed the
\* local browser
C27_Witness ==
  /\ Done({"closeBrowser"})
  /\ call.held = "local"
  /\ [kind |-> "local", releases |-> <<"close">>] \in gone
  /\ [kind |-> "remote", releases |-> <<>>] \in gone

\* C28: whenever no call is in progress, the active page handle, if there is
\* one, is an open page of the driver handle the session holds.
C28_PageOfHeldDriver ==
  (pc = "idle" /\ page # NoPage) =>
     /\ page \in OpenIds
     /\ PageRec(page).owner = "held"

\* the step is the mouse primitive of a click or hover resolving
PrimitiveResolves ==
  /\ pc = "primitive"
  /\ call.op \in MouseOps
  /\ events' = events \o <<"primitive", "position">>

\* the step is the reset of closeBrowser, or of a launchBrowser with remote
\* connection disabled, which closes or resets the prior state
ResetStep ==
  \/ pc = "idle" /\ call'.op = "closeBrowser"
  \/ pc = "launch" /\ call.op = "launchBrowser" /\ ~call.remoteEnabled

\* C29: the last mouse position changes in two ways only: the mouse
\* primitive of a click or hover resolves, which sets it to the coordinate
\* string of the call, and closeBrowser, or a launch that closes the prior
\* state, clears it. Every other step (of type, scrollDown, scrollUp, resize,
\* navigateToUrl, an inspection operation, or of a click or hover that fails
\* before or in its primitive) leaves it as it was, and a result reports the
\* value held when the call returns.
C29_MousePositionFrame ==
  /\ [][/\ PrimitiveResolves => currentMousePosition' = Some(call.arg)
        /\ ResetStep => currentMousePosition' = Undefined
        /\ ~PrimitiveResolves /\ ~ResetStep => currentMousePosition' = currentMousePosition]_vars
  /\ []((pc = "idle" /\ "currentMousePosition" \in outcome.present) =>
          outcome.currentMousePosition = currentMousePosition)
  /\ []((pc = "idle" /\ call.op \in ActionOps \cup InspectOps /\ outcome.status = "returned") =>
          "currentMousePosition" \in outcome.present)

\* a hover whose primitive rejected, after a click that had set the
\* position: the hover's result reports the click's coordinate
C29_Witness ==
  /\ Done({"hover"})
  /\ Did("primitive:rejects")
  /\ outcome.status = "returned"
  /\ outcome.currentMousePosition = Some(<<"100", "200">>)
  /\ currentMousePosition = Some(<<"100", "200">>)


====
